---- MODULE Spec2Model ----
(***************************************************************************)
(* State-machine model of the fx_cast background script:                   *)
(*   - the Device Registry (deviceManager): one upstream bridge channel,   *)
(*     the receiverDevices table and the receiverDevice* events;           *)
(*   - the Session Router (castManager): cast instances, each pairing a    *)
(*     sender (content) channel with a bridge channel.                     *)
(* Every action is one JavaScript turn: a handler runs from its start to   *)
(* its next await (or its end) without interleaving.                       *)
(***************************************************************************)
EXTENDS Integers, Sequences, FiniteSets, TLC

(***************************************************************************)
(* Bounds of the model.                                                    *)
(***************************************************************************)
NumDevices == 2
MaxPorts == 3
MaxConns == 2
MaxHeld == 3
MaxTabId == 1
MaxFrameId == 1
MaxMsgs == 2
MaxLoads == 1
MaxPosted == 3

DeviceIds == 1..NumDevices
PortIds == 1..MaxPorts
ObjIds == 1..(2 * NumDevices + 1)
Origins == {"init", "refresh", "timer"}
Conns == 1..MaxConns
TabIds == 1..MaxTabId
FrameIds == 0..MaxFrameId

(***************************************************************************)
(* Values: receiver status, receiver device, messages and events.          *)
(***************************************************************************)
NoStatus == [kind |-> "undefined"]
UndefApps == [defined |-> FALSE, list |-> <<>>]
Apps(l) == [defined |-> TRUE, list |-> l]

MkStatus(a, s, v, ap) ==
    [kind |-> "status", isActiveInput |-> a, isStandBy |-> s, volume |-> v,
     applications |-> ap]

\* statuses a main:receiverDeviceUp message may carry in deviceInfo.status
InitialStatuses == {NoStatus, MkStatus(FALSE, FALSE, 0, Apps(<<"app0">>))}

\* statuses a main:receiverDeviceStatusUpdated message may carry
StatusUpdates ==
    {MkStatus(TRUE, FALSE, 1, UndefApps), MkStatus(FALSE, TRUE, 2, Apps(<<"app1">>))}

ReceiverDevice(id, st) == [id |-> id, status |-> st]
Free == [id |-> 0, status |-> NoStatus]

\* main:receiverDeviceUp {deviceId, deviceInfo}: the bridge announces a device
\* under its own id (deviceInfo.id = deviceId); onBridgeDisconnect reads the id
\* from the stored object, onBridgeMessage from the message.
ReceiverDeviceUpMsg(d, st) ==
    [subject |-> "main:receiverDeviceUp", deviceId |-> d,
     deviceInfo |-> ReceiverDevice(d, st)]
ReceiverDeviceDownMsg(d) == [subject |-> "main:receiverDeviceDown", deviceId |-> d]
ReceiverDeviceStatusUpdatedMsg(d, st) ==
    [subject |-> "main:receiverDeviceStatusUpdated", deviceId |-> d, status |-> st]
ReceiverDeviceMediaStatusUpdatedMsg(d) ==
    [subject |-> "main:receiverDeviceMediaStatusUpdated", deviceId |-> d]

\* what the bridge may send on an upstream channel
BridgeMessages ==
    {ReceiverDeviceUpMsg(d, st) : d \in DeviceIds, st \in InitialStatuses}
        \cup {ReceiverDeviceDownMsg(d) : d \in DeviceIds}
        \cup {ReceiverDeviceStatusUpdatedMsg(d, st) : d \in DeviceIds, st \in StatusUpdates}
        \cup {ReceiverDeviceMediaStatusUpdatedMsg(d) : d \in DeviceIds}

StartDiscoveryMsg == [subject |-> "bridge:startDiscovery", shouldWatchStatus |-> TRUE]

ReceiverDeviceUpEvent(info) == [type |-> "receiverDeviceUp", deviceInfo |-> info]
ReceiverDeviceDownEvent(id) == [type |-> "receiverDeviceDown", deviceId |-> id]
ReceiverDeviceUpdatedEvent(id, st) ==
    [type |-> "receiverDeviceUpdated", deviceId |-> id, status |-> st]

VARIABLES
    receiverDevices,  \* deviceManager.receiverDevices: <<[key, ref]>> in insertion order
    heap,             \* the ReceiverDevice objects the table and snapshots refer to
    bridgePort,       \* deviceManager.bridgePort: a port id, 0 when undefined
    ports,            \* the upstream channels bridge.connect() gave the registry
    pending,          \* refresh() calls suspended at await bridge.connect(), by origin
    timers,           \* reconnect timeouts set and not yet fired
    emitted,          \* events dispatched by the last turn, in order
    last,             \* the last turn: [op, deviceId, known]
    refTable,         \* reference table: the merge rules replayed since the last clear
    snapshot,         \* an array a caller got from getDevices() and still holds
    snapshotCopy,     \* what that array held when getDevices() returned
    held,             \* registry turns run since getDevices() returned
    routerReady,      \* castManager.init() has attached its listeners
    conns,            \* sender channels and the instance created for each
    activeInstances,  \* castManager.activeInstances
    posted,           \* messages posted to each sender channel, in order
    bridgeOut,        \* messages posted to each instance's bridge channel, in order
    contentRecv,      \* number of messages received on each sender channel
    bridgeRecv,       \* number of messages received on each instance's bridge channel
    selecting,        \* main:selectReceiver handlers awaiting getSelection(), per instance
    routerLast,       \* the last router turn: [op, conn, msg, threw]
    injected,         \* content injections tabs.executeScript() has performed, in order
    loading           \* loadSender calls of type Tab or Screen, in call order, with
                      \* the await each one is at

registryVars ==
    <<receiverDevices, heap, bridgePort, ports, pending, timers, emitted, last,
      refTable, snapshot, snapshotCopy, held>>
loadVars == <<injected, loading>>
fwdVars == <<bridgeOut, contentRecv, bridgeRecv, selecting, loadVars>>
routerVars == <<routerReady, conns, activeInstances, fwdVars, routerLast>>
vars == <<registryVars, routerVars, posted>>

(***************************************************************************)
(* Map<string, ReceiverDevice>: insertion-ordered, keys unique.            *)
(***************************************************************************)
MapKeys(t) == {t[i].key : i \in DOMAIN t}
MapHas(t, k) == k \in MapKeys(t)
MapIndex(t, k) == CHOOSE i \in DOMAIN t : t[i].key = k
MapGet(t, k) == t[MapIndex(t, k)].ref
MapSet(t, k, r) ==
    IF MapHas(t, k) THEN [t EXCEPT ![MapIndex(t, k)].ref = r]
    ELSE Append(t, [key |-> k, ref |-> r])
MapDelete(t, k) == SelectSeq(t, LAMBDA e : e.key # k)
MapRefs(t) == {t[i].ref : i \in DOMAIN t}

\* object references. NewObj is a reference not in use; Store keeps the
\* references of a table t, heap h and held snapshot s in a canonical numbering
\* (the table's objects in table order, then the snapshot's other objects) and
\* drops unreachable objects.
SnapshotRefs(s) == {s.refs[i] : i \in DOMAIN s.refs}
NewObj(t, s) == CHOOSE o \in ObjIds : o \notin MapRefs(t) \cup SnapshotRefs(s)
Reachable(t, s) ==
    [i \in DOMAIN t |-> t[i].ref] \o SelectSeq(s.refs, LAMBDA r : r \notin MapRefs(t))
Renumber(all, r) == CHOOSE i \in DOMAIN all : all[i] = r
Store(t, h, s) ==
    LET all == Reachable(t, s)
    IN  /\ receiverDevices' = [i \in DOMAIN t |-> [t[i] EXCEPT !.ref = Renumber(all, @)]]
        /\ heap' = [o \in ObjIds |-> IF o \in DOMAIN all THEN h[all[o]] ELSE Free]
        /\ snapshot' = [s EXCEPT !.refs = [i \in DOMAIN s.refs |-> Renumber(all, s.refs[i])]]

NoSnapshot == [taken |-> FALSE, refs |-> <<>>]

(***************************************************************************)
(* Upstream channels of the registry.                                      *)
(***************************************************************************)
Unopened ==
    [state |-> "unopened", by |-> "none", onMessage |-> FALSE,
     onDisconnect |-> FALSE, sent |-> <<>>]
NumOpened == Cardinality({p \in PortIds : ports[p].state # "unopened"})
NumPending == pending["init"] + pending["refresh"] + pending["timer"]
\* connects made, suspended or owed by a set timer
Used == NumOpened + NumPending + timers
IsLive(p) ==
    /\ ports[p].state = "connected"
    /\ ports[p].onMessage
    /\ ports[p].onDisconnect
LivePorts == {p \in PortIds : IsLive(p)}
\* Port.disconnect(): closes our end ("closed"); onDisconnect fires at the other
\* end only. A channel whose other end has gone is "lost".
PortDisconnect(ps, p) ==
    IF p # 0 /\ ps[p].state = "connected"
    THEN [ps EXCEPT ![p].state = "closed"]
    ELSE ps

(***************************************************************************)
(* Device Registry: the effect of each handler on the table.               *)
(***************************************************************************)
\* getDevices(): a new array of the table's values, which are object references
GetDevices == [i \in DOMAIN receiverDevices |-> receiverDevices[i].ref]
Deref(h, refs) == [i \in DOMAIN refs |-> h[refs[i]]]

\* (mutant) the update's applications always replace the device's
StatusAfterUpdateReplacingApps(old, upd) ==
    IF old.kind = "status"
    THEN [old EXCEPT !.isActiveInput = upd.isActiveInput,
                     !.isStandBy = upd.isStandBy,
                     !.volume = upd.volume,
                     !.applications = upd.applications]
    ELSE upd

\* main:receiverDeviceStatusUpdated on a known device: the status it ends with
StatusAfterUpdate(old, upd) ==
    IF old.kind = "status"
    THEN [old EXCEPT !.isActiveInput = upd.isActiveInput,
                     !.isStandBy = upd.isStandBy,
                     !.volume = upd.volume,
                     !.applications =
                         IF upd.applications.defined THEN upd.applications ELSE @]
    ELSE upd

\* main:receiverDeviceDown: the table and the events dispatched
TableAfterDown(t, d) == IF MapHas(t, d) THEN MapDelete(t, d) ELSE t
\* (mutant) the event is dispatched only when the device was in the table
DownEventsIfKnown(t, d) == IF MapHas(t, d) THEN <<ReceiverDeviceDownEvent(d)>> ELSE <<>>
DownEvents(t, d) == <<ReceiverDeviceDownEvent(d)>>

\* (mutant) the table is cleared before the loop over it
DisconnectEventsAfterClear(t, h) == <<>>
\* (mutant) no reconnect timeout is set
TimersAfterDisconnectUnset(n) == n

\* onBridgeDisconnect: one receiverDeviceDown per table entry, carrying the
\* entry's receiverDevice.id, in the table's order
DisconnectEvents(t, h) == [i \in DOMAIN t |-> ReceiverDeviceDownEvent(h[t[i].ref].id)]
\* onBridgeDisconnect: window.setTimeout(() => this.refresh(), 10000)
TimersAfterDisconnect(n) == n + 1

\* refresh(): what is posted on the new channel
RefreshPosts == <<StartDiscoveryMsg>>
\* refresh(): the new channel once connected, with both listeners added
ConnectedPort(origin) ==
    [state |-> "connected", by |-> origin, onMessage |-> TRUE,
     onDisconnect |-> TRUE, sent |-> RefreshPosts]

(***************************************************************************)
(* castManager.init(): registry events forwarded to every live instance.   *)
(***************************************************************************)
CastMessage(e) ==
    IF e.type = "receiverDeviceUp"
    THEN [subject |-> "cast:receiverDeviceUp", receiverDevice |-> e.deviceInfo]
    ELSE [subject |-> "cast:receiverDeviceDown", receiverDeviceId |-> e.deviceId]
FanOutMessages(evs) ==
    LET s == SelectSeq(evs, LAMBDA e : e.type # "receiverDeviceUpdated")
    IN  [i \in DOMAIN s |-> CastMessage(s[i])]
\* a listener's loop over activeInstances ends at the first postMessage that
\* throws (a disconnected Port); dispatchEvent reports the error and goes on
Reached(insts) ==
    LET dead == {i \in DOMAIN insts :
                    /\ conns[insts[i]].kind = "content"
                    /\ conns[insts[i]].contentPort # "connected"}
    IN  {insts[i] : i \in {j \in DOMAIN insts : \A k \in dead : j < k}}
FanOut(evs) ==
    posted' = [c \in Conns |->
                  IF routerReady /\ c \in Reached(activeInstances)
                  THEN posted[c] \o FanOutMessages(evs)
                  ELSE posted[c]]

(***************************************************************************)
(* Reference rules for the table (history variable refTable).              *)
(***************************************************************************)
RefMerge(prior, upd) ==
    MkStatus(upd.isActiveInput, upd.isStandBy, upd.volume,
             IF upd.applications.defined THEN upd.applications
             ELSE IF prior.kind = "status" THEN prior.applications ELSE UndefApps)
RefApply(rt, m) ==
    IF m.subject = "main:receiverDeviceUp"
    THEN {e \in rt : e.key # m.deviceId}
             \cup {[key |-> m.deviceId, device |-> m.deviceInfo]}
    ELSE IF m.subject = "main:receiverDeviceDown"
    THEN {e \in rt : e.key # m.deviceId}
    ELSE IF m.subject = "main:receiverDeviceStatusUpdated"
    THEN {IF e.key = m.deviceId
          THEN [key |-> e.key,
                device |-> [e.device EXCEPT !.status = RefMerge(@, m.status)]]
          ELSE e : e \in rt}
    ELSE rt

(***************************************************************************)
(* Device Registry: actions.                                               *)
(***************************************************************************)
Turn(op, d, k) == [op |-> op, deviceId |-> d, known |-> k]

\* refresh() up to its await: disconnect the current channel, clear the table
RefreshStart(origin) ==
    /\ ports' = PortDisconnect(ports, bridgePort)
    /\ Store(<<>>, heap, snapshot)
    /\ pending' = [pending EXCEPT ![origin] = @ + 1]
    /\ refTable' = {}
    /\ emitted' = <<>>
    /\ UNCHANGED <<bridgePort, snapshotCopy>>

\* deviceManager.init()
DeviceManagerInit ==
    /\ last' = Turn("init", 0, bridgePort # 0)
    /\ IF bridgePort = 0
       THEN /\ Used < MaxPorts
            /\ RefreshStart("init")
       ELSE /\ emitted' = <<>>
            /\ UNCHANGED <<receiverDevices, heap, bridgePort, ports, pending,
                           refTable, snapshot, snapshotCopy>>
    /\ UNCHANGED timers
    /\ held' = IF snapshot.taken THEN held + 1 ELSE held
    /\ FanOut(emitted')
    /\ UNCHANGED routerVars

\* deviceManager.refresh() called directly
Refresh ==
    /\ Used < MaxPorts
    /\ last' = Turn("refresh", 0, FALSE)
    /\ RefreshStart("refresh")
    /\ UNCHANGED timers
    /\ held' = IF snapshot.taken THEN held + 1 ELSE held
    /\ FanOut(emitted')
    /\ UNCHANGED routerVars

\* the reconnect timeout set by onBridgeDisconnect fires
ReconnectTimeout ==
    /\ timers > 0
    /\ timers' = timers - 1
    /\ last' = Turn("timer", 0, FALSE)
    /\ RefreshStart("timer")
    /\ held' = IF snapshot.taken THEN held + 1 ELSE held
    /\ FanOut(emitted')
    /\ UNCHANGED routerVars

\* refresh() after its await: bridge.connect() has resolved with a new channel
RefreshConnected(origin) ==
    /\ pending[origin] > 0
    /\ LET p == NumOpened + 1
       IN  /\ p \in PortIds
           /\ ports' = [ports EXCEPT ![p] = ConnectedPort(origin)]
           /\ bridgePort' = p
    /\ last' = Turn("connected", 0, FALSE)
    /\ pending' = [pending EXCEPT ![origin] = @ - 1]
    /\ emitted' = <<>>
    /\ UNCHANGED <<receiverDevices, heap, timers, refTable, snapshot, snapshotCopy>>
    /\ held' = IF snapshot.taken THEN held + 1 ELSE held
    /\ FanOut(emitted')
    /\ UNCHANGED routerVars

\* onBridgeMessage: a message arrives on an upstream channel
OnBridgeMessage(p, m) ==
    /\ ports[p].state = "connected"
    /\ ports[p].onMessage
    /\ last' = Turn(m.subject, m.deviceId, MapHas(receiverDevices, m.deviceId))
    /\ refTable' = RefApply(refTable, m)
    /\ IF m.subject = "main:receiverDeviceUp"
       THEN LET r == NewObj(receiverDevices, snapshot)
            IN  /\ Store(MapSet(receiverDevices, m.deviceId, r),
                         [heap EXCEPT ![r] = m.deviceInfo], snapshot)
                /\ emitted' = <<ReceiverDeviceUpEvent(m.deviceInfo)>>
       ELSE IF m.subject = "main:receiverDeviceDown"
       THEN /\ Store(TableAfterDown(receiverDevices, m.deviceId), heap, snapshot)
            /\ emitted' = DownEvents(receiverDevices, m.deviceId)
       ELSE IF /\ m.subject = "main:receiverDeviceStatusUpdated"
               /\ MapHas(receiverDevices, m.deviceId)
       THEN LET r == MapGet(receiverDevices, m.deviceId)
                st == StatusAfterUpdate(heap[r].status, m.status)
            IN  /\ heap' = [heap EXCEPT ![r].status = st]
                /\ emitted' = <<ReceiverDeviceUpdatedEvent(m.deviceId, st)>>
                /\ UNCHANGED <<receiverDevices, snapshot>>
       ELSE /\ emitted' = <<>>
            /\ UNCHANGED <<receiverDevices, heap, snapshot>>
    /\ UNCHANGED <<bridgePort, ports, pending, timers, snapshotCopy>>
    /\ held' = IF snapshot.taken THEN held + 1 ELSE held
    /\ FanOut(emitted')
    /\ UNCHANGED routerVars

\* onBridgeDisconnect: the bridge end of an upstream channel has gone
OnBridgeDisconnect(p) ==
    /\ ports[p].state = "connected"
    /\ ports[p].onDisconnect
    /\ Used < MaxPorts
    /\ ports' = [ports EXCEPT ![p].state = "lost"]
    /\ last' = Turn("disconnect", 0, FALSE)
    /\ emitted' = DisconnectEvents(receiverDevices, heap)
    /\ Store(<<>>, heap, snapshot)
    /\ timers' = TimersAfterDisconnect(timers)
    /\ refTable' = {}
    /\ UNCHANGED <<bridgePort, pending, snapshotCopy>>
    /\ held' = IF snapshot.taken THEN held + 1 ELSE held
    /\ FanOut(emitted')
    /\ UNCHANGED routerVars

\* a caller takes getDevices() and keeps the array
GetDevicesCall ==
    /\ Store(receiverDevices, heap, [taken |-> TRUE, refs |-> GetDevices])
    /\ snapshotCopy' = Deref(heap, GetDevices)
    /\ last' = Turn("getDevices", 0, FALSE)
    /\ emitted' = <<>>
    /\ UNCHANGED <<bridgePort, ports, pending, timers, refTable>>
    /\ held' = 0
    /\ FanOut(emitted')
    /\ UNCHANGED routerVars

(***************************************************************************)
(* Session Router: cast instances.                                         *)
(* A channel is "connected", "lost" (its other end has gone),              *)
(* "disconnected" (disconnect() was called at this end) or "closed"        *)
(* (MessagePort.close()).                                                  *)
(***************************************************************************)
Undefined == -1
NoConn ==
    [pc |-> "none", kind |-> "none", tabId |-> Undefined, frameId |-> Undefined,
     appId |-> 0,
     contentPort |-> "none", bridgePort |-> "none",
     contentOnMessage |-> FALSE, contentOnDisconnect |-> FALSE,
     bridgeOnMessage |-> FALSE, bridgeOnDisconnect |-> FALSE]
InitializedMsg == [subject |-> "cast:initialized", data |-> "bridgeInfo"]

\* the last router turn: the operation, the instance (0 when none), the message
\* handled and whether the turn ended by throwing
NoMsg == [subject |-> "none"]
RTurn(op, c, m, threw) == [op |-> op, conn |-> c, msg |-> m, threw |-> threw]

SetHas(insts, c) == \E i \in DOMAIN insts : insts[i] = c
SetAdd(insts, c) == IF SetHas(insts, c) THEN insts ELSE Append(insts, c)
SetDelete(insts, c) == SelectSeq(insts, LAMBDA x : x # c)
Instances == {activeInstances[i] : i \in DOMAIN activeInstances}

Closed(st) == IF st = "connected" THEN "disconnected" ELSE st

\* (mutant) the loop over the live instances disconnects nothing
DisconnectOccupantsNone(cs, insts, tab, frame) == cs

\* createInstanceFromContent: the loop disconnecting the bridge channel of
\* every live instance at the sender's tab and frame
DisconnectOccupants(cs, insts, tab, frame) ==
    [c \in Conns |->
        IF /\ SetHas(insts, c)
           /\ cs[c].tabId = tab
           /\ cs[c].frameId = frame
        THEN [cs[c] EXCEPT !.bridgePort = Closed(@)]
        ELSE cs[c]]

\* (mutant) only the tab id is required
InvalidPortContextTabOnly(tab, frame) == tab = Undefined

\* createInstanceFromContent: sender.tab.id or sender.frameId is undefined
InvalidPortContext(tab, frame) == tab = Undefined \/ frame = Undefined

\* castManager.init(): the onConnect and registry listeners are attached
CastManagerInit ==
    /\ ~routerReady
    /\ routerReady' = TRUE
    /\ routerLast' = RTurn("init", 0, NoMsg, FALSE)
    /\ UNCHANGED <<conns, activeInstances, posted, fwdVars, registryVars>>

\* createInstance(port) up to await bridge.connect()
CreateInstance(c, kind, tab, frame) ==
    /\ conns[c].pc = "none"
    /\ \A b \in Conns : b < c => conns[b].pc # "none"
    /\ kind = "content" => routerReady
    /\ kind = "background" => tab = Undefined /\ frame = Undefined
    /\ IF kind = "content" /\ InvalidPortContext(tab, frame)
       THEN /\ conns' = [conns EXCEPT ![c] =
                            [NoConn EXCEPT !.pc = "failed", !.kind = kind,
                                           !.tabId = tab, !.frameId = frame,
                                           !.contentPort = "connected"]]
            /\ routerLast' = RTurn("createInstance", c, NoMsg, TRUE)
       ELSE /\ conns' =
                [IF kind = "content"
                 THEN DisconnectOccupants(conns, activeInstances, tab, frame)
                 ELSE conns
                 EXCEPT ![c] = [NoConn EXCEPT !.pc = "connecting", !.kind = kind,
                                              !.tabId = tab, !.frameId = frame,
                                              !.contentPort = "connected"]]
            /\ routerLast' = RTurn("createInstance", c, NoMsg, FALSE)
    /\ UNCHANGED <<routerReady, activeInstances, posted, fwdVars, registryVars>>

\* createInstanceFrom*: bridge.connect() has resolved; listeners are added and
\* createInstance adds the instance to activeInstances, then awaits bridge.getInfo()
InstanceConnected(c) ==
    /\ conns[c].pc = "connecting"
    /\ conns' = [conns EXCEPT ![c].pc = "gettingInfo",
                              ![c].bridgePort = "connected",
                              ![c].bridgeOnDisconnect = TRUE,
                              ![c].bridgeOnMessage = TRUE,
                              ![c].contentOnDisconnect = (conns[c].kind = "content"),
                              ![c].contentOnMessage = TRUE]
    /\ activeInstances' = SetAdd(activeInstances, c)
    /\ routerLast' = RTurn("connected", c, NoMsg, FALSE)
    /\ UNCHANGED <<routerReady, posted, fwdVars, registryVars>>

\* createInstance after await bridge.getInfo(): cast:initialized is posted
\* (postMessage on a Port that is no longer connected throws)
InstanceInitialized(c) ==
    /\ conns[c].pc = "gettingInfo"
    /\ IF conns[c].kind = "content" /\ conns[c].contentPort # "connected"
       THEN /\ conns' = [conns EXCEPT ![c].pc = "rejected"]
            /\ routerLast' = RTurn("initialized", c, NoMsg, TRUE)
            /\ UNCHANGED posted
       ELSE /\ conns' = [conns EXCEPT ![c].pc = "done"]
            /\ routerLast' = RTurn("initialized", c, NoMsg, FALSE)
            /\ posted' = [posted EXCEPT ![c] = Append(@, InitializedMsg)]
    /\ UNCHANGED <<routerReady, activeInstances, fwdVars, registryVars>>

\* bridge.getInfo() rejects: createInstance rejects after adding the instance
InstanceInfoFailed(c) ==
    /\ conns[c].pc = "gettingInfo"
    /\ conns' = [conns EXCEPT ![c].pc = "rejected"]
    /\ routerLast' = RTurn("infoFailed", c, NoMsg, TRUE)
    /\ UNCHANGED <<routerReady, activeInstances, posted, fwdVars, registryVars>>

\* (mutant) the teardown leaves the instance in the set
TeardownInstancesKept(insts, c) == insts

\* onDisconnect of createInstanceFromContent
Teardown(r) ==
    [r EXCEPT !.bridgeOnMessage = FALSE, !.contentOnMessage = FALSE,
              !.bridgePort = Closed(@), !.contentPort = Closed(@)]
\* onDisconnect: this.activeInstances.delete(instance)
TeardownInstances(insts, c) == SetDelete(insts, c)

\* the sender end of an instance's content Port has gone
ContentPortDisconnected(c) ==
    /\ conns[c].kind = "content"
    /\ conns[c].contentPort = "connected"
    /\ IF conns[c].contentOnDisconnect
       THEN /\ conns' = [conns EXCEPT ![c] =
                            Teardown([conns[c] EXCEPT !.contentPort = "lost"])]
            /\ activeInstances' = TeardownInstances(activeInstances, c)
            /\ routerLast' = RTurn("teardown", c, NoMsg, FALSE)
       ELSE /\ conns' = [conns EXCEPT ![c].contentPort = "lost"]
            /\ routerLast' = RTurn("contentLost", c, NoMsg, FALSE)
            /\ UNCHANGED activeInstances
    /\ UNCHANGED <<routerReady, posted, fwdVars, registryVars>>

\* the bridge end of an instance's bridge channel has gone
InstanceBridgeDisconnected(c) ==
    /\ conns[c].bridgePort = "connected"
    /\ conns[c].bridgeOnDisconnect
    /\ IF conns[c].kind = "content"
       THEN /\ conns' = [conns EXCEPT ![c] =
                            Teardown([conns[c] EXCEPT !.bridgePort = "lost"])]
            /\ activeInstances' = TeardownInstances(activeInstances, c)
       ELSE /\ conns' = [conns EXCEPT ![c].bridgePort = "lost",
                                      ![c].contentPort = "closed"]
            /\ activeInstances' = SetDelete(activeInstances, c)
    /\ routerLast' = RTurn("teardown", c, NoMsg, FALSE)
    /\ UNCHANGED <<routerReady, posted, fwdVars, registryVars>>

\* the other end of a channel went away just as the first teardown disconnected
\* it at this end: its onDisconnect listener (never removed) runs the teardown
\* a second time
LateDisconnect(c, side) ==
    /\ conns[c].kind = "content"
    /\ side = "content" =>
          conns[c].contentPort = "disconnected" /\ conns[c].contentOnDisconnect
    /\ side = "bridge" =>
          conns[c].bridgePort = "disconnected" /\ conns[c].bridgeOnDisconnect
    /\ conns' = [conns EXCEPT ![c] =
                    Teardown(IF side = "content"
                             THEN [conns[c] EXCEPT !.contentPort = "lost"]
                             ELSE [conns[c] EXCEPT !.bridgePort = "lost"])]
    /\ activeInstances' = TeardownInstances(activeInstances, c)
    /\ routerLast' = RTurn("teardown", c, NoMsg, FALSE)
    /\ UNCHANGED <<routerReady, posted, fwdVars, registryVars>>

(***************************************************************************)
(* Session Router: messages.                                               *)
(* A subject sent by a sender is a sequence of tokens, ":" being one, so   *)
(* that split(":") is computed: <<"bridge", ":", "createCastSession">>.    *)
(***************************************************************************)
RECURSIVE SumTo(_, _)
\* f[1] + ... + f[n]
SumTo(f, n) == IF n = 0 THEN 0 ELSE f[n] + SumTo(f, n - 1)

BridgeCreateCastSession == <<"bridge", ":", "createCastSession">>
MainInitializeCast == <<"main", ":", "initializeCast">>
MainSelectReceiver == <<"main", ":", "selectReceiver">>
MainCloseReceiverSelector == <<"main", ":", "closeReceiverSelector">>
\* subjects a sender may put on its channel
ContentSubjects ==
    {BridgeCreateCastSession, MainInitializeCast, MainSelectReceiver,
     MainCloseReceiverSelector,
     <<"bridge", "X", ":", "createCastSession">>,
     <<"main", ":", "bridge", ":", "createCastSession">>}
\* subjects the bridge may put on an instance's bridge channel
BridgeSubjects == {"cast:sessionCreated", "cast:sessionStopped"}
\* outcomes of selectorManager.getSelection()
SelectionOutcomes ==
    {"none", "castApp", "castTab", "castScreen", "castFile", "stop", "error"}

\* const [destination] = message.subject.split(":")
Destination(subject) ==
    LET colons == {i \in DOMAIN subject : subject[i] = ":"}
    IN  IF colons = {} THEN subject
        ELSE SubSeq(subject, 1, (CHOOSE i \in colons : \A j \in colons : i <= j) - 1)

\* (mutant) only the first device of the table is sent
DeviceUpsFirst ==
    [i \in DOMAIN GetDevices \cap {1} |->
        [subject |-> "cast:receiverDeviceUp", receiverDevice |-> heap[GetDevices[i]]]]

\* main:initializeCast: one cast:receiverDeviceUp per device of getDevices()
DeviceUps ==
    [i \in DOMAIN GetDevices |->
        [subject |-> "cast:receiverDeviceUp", receiverDevice |-> heap[GetDevices[i]]]]

\* (mutant) a forwarded message goes to the front of the queue
PostFirst(q, m) == <<m>> \o q

\* Port.postMessage: the message joins the channel's queue
Post(q, m) == Append(q, m)

\* (mutant) a sender channel is taken to accept messages whatever its state
CanPostContentAlways(r) == TRUE

\* whether postMessage on the instance's sender channel goes through: a Port
\* that is no longer connected throws, a MessagePort never does
CanPostContent(r) == r.kind = "background" \/ r.contentPort = "connected"

\* handleContentMessage: a message arrives on an instance's sender channel
ContentMessage(c, subject) ==
    /\ conns[c].contentOnMessage
    /\ conns[c].contentPort = "connected"
    /\ SumTo(contentRecv, MaxConns) < MaxMsgs
    /\ contentRecv' = [contentRecv EXCEPT ![c] = @ + 1]
    /\ LET m == [subject |-> subject, data |-> contentRecv[c] + 1]
           forward == Destination(subject) = <<"bridge">>
       IN  IF forward /\ conns[c].bridgePort # "connected"
           THEN /\ routerLast' = RTurn("contentMessage", c, m, TRUE)
                /\ UNCHANGED <<conns, posted, bridgeOut, selecting>>
           ELSE /\ bridgeOut' = IF forward
                                THEN [bridgeOut EXCEPT ![c] = Post(@, m)]
                                ELSE bridgeOut
                /\ IF subject = MainInitializeCast
                   THEN /\ conns' = [conns EXCEPT ![c].appId = m.data]
                        /\ posted' = [posted EXCEPT ![c] = @ \o DeviceUps]
                        /\ routerLast' = RTurn("contentMessage", c, m, FALSE)
                        /\ UNCHANGED selecting
                   ELSE IF subject = MainSelectReceiver
                   THEN IF conns[c].tabId = Undefined \/ conns[c].frameId = Undefined
                        THEN /\ routerLast' = RTurn("contentMessage", c, m, TRUE)
                             /\ UNCHANGED <<conns, posted, selecting>>
                        ELSE /\ selecting' = [selecting EXCEPT ![c] = @ + 1]
                             /\ routerLast' = RTurn("contentMessage", c, m, FALSE)
                             /\ UNCHANGED <<conns, posted>>
                   ELSE /\ routerLast' = RTurn("contentMessage", c, m, FALSE)
                        /\ UNCHANGED <<conns, posted, selecting>>
    /\ UNCHANGED <<routerReady, activeInstances, bridgeRecv, loadVars, registryVars>>

\* what await getSelection() gives for each outcome: a ReceiverSelection, or
\* nothing when the user cancelled or the workflow failed
Selection(outcome) ==
    IF outcome = "stop"
    THEN [actionType |-> "stop", receiverDevice |-> ReceiverDevice(1, NoStatus)]
    ELSE IF outcome \in {"castApp", "castTab", "castScreen", "castFile"}
    THEN [actionType |-> "cast",
          mediaType |-> IF outcome = "castApp" THEN "app"
                        ELSE IF outcome = "castTab" THEN "tab"
                        ELSE IF outcome = "castScreen" THEN "screen"
                        ELSE "file",
          receiverDevice |-> ReceiverDevice(1, NoStatus)]
    ELSE [actionType |-> "none"]

\* (mutant) a Cast selection of another media type is reported as selected too
SelectionReplyAnyCast(outcome) ==
    IF Selection(outcome).actionType = "cast"
    THEN [subject |-> "cast:selectReceiver/selected", data |-> Selection(outcome)]
    ELSE IF outcome = "stop"
    THEN [subject |-> "cast:selectReceiver/stopped", data |-> Selection(outcome)]
    ELSE [subject |-> "cast:selectReceiver/cancelled"]

\* main:selectReceiver: what the sender is told for each outcome
SelectionReply(outcome) ==
    IF outcome = "castApp"
    THEN [subject |-> "cast:selectReceiver/selected", data |-> Selection(outcome)]
    ELSE IF outcome = "stop"
    THEN [subject |-> "cast:selectReceiver/stopped", data |-> Selection(outcome)]
    ELSE [subject |-> "cast:selectReceiver/cancelled"]

\* the turn of a settled getSelection(): the outcome it settled with
SelectionTurn(outcome) == [subject |-> "getSelection", outcome |-> outcome]

\* loadSender, Tab or Screen: the call is at its first await (step 1), at its
\* second (step 2), has returned (step 0) or was rejected (step -1)
Load(c, tabId, frameId, mediaType, step) ==
    [conn |-> c, tabId |-> tabId, frameId |-> frameId, mediaType |-> mediaType,
     step |-> step]
\* tabs.executeScript(tabId, {code | file, frameId}) of the load-th call
Injection(load, tabId, frameId, what) ==
    [load |-> load, tabId |-> tabId, frameId |-> frameId, what |-> what]

\* (mutant) the mirroring bundle is injected whether or not the snippet was
InjectedAfterAlways(l, i, ok) ==
    IF l.step = 1 /\ ok
    THEN Append(injected, Injection(i, l.tabId, l.frameId, "code"))
    ELSE Append(injected, Injection(i, l.tabId, l.frameId, "file"))

\* the injections performed once an executeScript() of the i-th call settled
InjectedAfter(l, i, ok) ==
    IF ~ok THEN injected
    ELSE Append(injected,
                Injection(i, l.tabId, l.frameId, IF l.step = 1 THEN "code" ELSE "file"))

\* handleContentMessage, main:selectReceiver after await getSelection(): the
\* outcome is reported to the sender; a Cast selection of type Tab or Screen
\* then calls loadSender, which runs up to its first executeScript(). A
\* postMessage that throws is caught and cancelled is posted, which throws
\* again: nothing is posted and loadSender is not called. A Cast selection of
\* type File starts the media sender, which is outside this module.
SelectionResolved(c, outcome) ==
    /\ selecting[c] > 0
    /\ selecting' = [selecting EXCEPT ![c] = @ - 1]
    /\ IF CanPostContent(conns[c])
       THEN /\ posted' = [posted EXCEPT ![c] = Post(@, SelectionReply(outcome))]
            /\ routerLast' = RTurn("selection", c, SelectionTurn(outcome), FALSE)
            /\ loading' = IF outcome \in {"castTab", "castScreen"}
                          THEN Append(loading,
                                      Load(c, conns[c].tabId, conns[c].frameId,
                                           Selection(outcome).mediaType, 1))
                          ELSE loading
       ELSE /\ routerLast' = RTurn("selection", c, SelectionTurn(outcome), TRUE)
            /\ UNCHANGED <<posted, loading>>
    /\ UNCHANGED <<routerReady, conns, activeInstances, bridgeOut, contentRecv,
                   bridgeRecv, injected, registryVars>>

\* loadSender, Tab or Screen, after an await browser.tabs.executeScript():
\* when the first resolved the second is called, when the second resolved the
\* call returns; a rejection ends the call
InjectionSettled(i, ok) ==
    /\ i \in DOMAIN loading
    /\ loading[i].step > 0
    /\ injected' = InjectedAfter(loading[i], i, ok)
    /\ loading' = [loading EXCEPT ![i].step =
                      IF ~ok THEN -1 ELSE IF @ = 1 THEN 2 ELSE 0]
    /\ routerLast' = RTurn("injection", loading[i].conn, NoMsg, ~ok)
    /\ UNCHANGED <<routerReady, conns, activeInstances, bridgeOut, contentRecv,
                   bridgeRecv, selecting, posted, registryVars>>

\* onBridgePortMessage: a message arrives on an instance's bridge channel
InstanceBridgeMessage(c, subject) ==
    /\ conns[c].bridgeOnMessage
    /\ conns[c].bridgePort = "connected"
    /\ SumTo(bridgeRecv, MaxConns) < MaxMsgs
    /\ bridgeRecv' = [bridgeRecv EXCEPT ![c] = @ + 1]
    /\ LET m == [subject |-> subject, data |-> bridgeRecv[c] + 1]
       IN  IF CanPostContent(conns[c])
           THEN /\ posted' = [posted EXCEPT ![c] = Post(@, m)]
                /\ routerLast' = RTurn("bridgeMessage", c, m, FALSE)
           ELSE /\ routerLast' = RTurn("bridgeMessage", c, m, TRUE)
                /\ UNCHANGED posted
    /\ UNCHANGED <<routerReady, conns, activeInstances, bridgeOut, contentRecv,
                   selecting, loadVars, registryVars>>

(***************************************************************************)
(* Session Router: loadSender for a Cast selection of media type App.      *)
(***************************************************************************)
\* JavaScript truthiness of an optional number
Truthy(n) == n # Undefined /\ n # 0

\* getInstance: the test an instance passes
Matches(r, tabId, frameId) ==
    r.tabId = tabId /\ ~(Truthy(frameId) /\ r.frameId # frameId)
\* getInstance: the first instance, in insertion order, that passes; 0 when none
GetInstance(insts, tabId, frameId) ==
    LET hits == {i \in DOMAIN insts : Matches(conns[insts[i]], tabId, frameId)}
    IN  IF hits = {} THEN 0
        ELSE insts[CHOOSE i \in hits : \A j \in hits : i <= j]

LaunchAppMsg(dev) == [subject |-> "cast:launchApp", receiverDevice |-> dev]
LoadRequest(tabId, frameId, dev) ==
    [subject |-> "loadSender", tabId |-> tabId, frameId |-> frameId,
     receiverDevice |-> dev]
LaunchCount ==
    Cardinality({<<c, i>> \in Conns \X (1..(MaxLoads + 2 * MaxMsgs + NumDevices + 2)) :
                    i \in DOMAIN posted[c] /\ posted[c][i].subject = "cast:launchApp"})

\* loadSender({tabId, frameId, selection}) with a Cast selection of type App
LoadSender(tabId, frameId, d) ==
    /\ LaunchCount < MaxLoads
    /\ LET inst == GetInstance(activeInstances, tabId, frameId)
           dev == ReceiverDevice(d, NoStatus)
       IN  IF inst = 0
           THEN /\ routerLast' = RTurn("loadSender", 0, LoadRequest(tabId, frameId, dev), TRUE)
                /\ UNCHANGED posted
           ELSE IF ~CanPostContent(conns[inst])
           THEN /\ routerLast' = RTurn("loadSender", inst, LoadRequest(tabId, frameId, dev), TRUE)
                /\ UNCHANGED posted
           ELSE /\ routerLast' = RTurn("loadSender", inst, LoadRequest(tabId, frameId, dev), FALSE)
                /\ posted' = [posted EXCEPT ![inst] = Post(@, LaunchAppMsg(dev))]
    /\ UNCHANGED <<routerReady, conns, activeInstances, fwdVars, registryVars>>

(***************************************************************************)
(* Specifications.                                                         *)
(***************************************************************************)
Init ==
    /\ receiverDevices = <<>>
    /\ heap = [o \in ObjIds |-> Free]
    /\ bridgePort = 0
    /\ ports = [p \in PortIds |-> Unopened]
    /\ pending = [o \in Origins |-> 0]
    /\ timers = 0
    /\ emitted = <<>>
    /\ last = Turn("none", 0, FALSE)
    /\ refTable = {}
    /\ snapshot = NoSnapshot
    /\ snapshotCopy = <<>>
    /\ held = 0
    /\ routerReady = FALSE
    /\ conns = [c \in Conns |-> NoConn]
    /\ activeInstances = <<>>
    /\ posted = [c \in Conns |-> <<>>]
    /\ bridgeOut = [c \in Conns |-> <<>>]
    /\ contentRecv = [c \in Conns |-> 0]
    /\ bridgeRecv = [c \in Conns |-> 0]
    /\ selecting = [c \in Conns |-> 0]
    /\ routerLast = RTurn("none", 0, NoMsg, FALSE)
    /\ injected = <<>>
    /\ loading = <<>>

NextRegistry ==
    \/ DeviceManagerInit
    \/ Refresh
    \/ ReconnectTimeout
    \/ \E o \in Origins : RefreshConnected(o)
    \/ \E p \in PortIds, m \in BridgeMessages : OnBridgeMessage(p, m)
    \/ \E p \in PortIds : OnBridgeDisconnect(p)

NextRouter ==
    \/ CastManagerInit
    \/ \E c \in Conns, tab \in TabIds \cup {Undefined}, frame \in FrameIds \cup {Undefined} :
           CreateInstance(c, "content", tab, frame)
    \/ \E c \in Conns : CreateInstance(c, "background", Undefined, Undefined)
    \/ \E c \in Conns : InstanceConnected(c)
    \/ \E c \in Conns : InstanceInitialized(c)
    \/ \E c \in Conns : InstanceInfoFailed(c)
    \/ \E c \in Conns : ContentPortDisconnected(c)
    \/ \E c \in Conns : InstanceBridgeDisconnected(c)
    \/ \E c \in Conns, side \in {"content", "bridge"} : LateDisconnect(c, side)

NextMessages ==
    \/ \E c \in Conns, subject \in ContentSubjects : ContentMessage(c, subject)
    \/ \E c \in Conns, outcome \in SelectionOutcomes : SelectionResolved(c, outcome)
    \/ \E c \in Conns, subject \in BridgeSubjects : InstanceBridgeMessage(c, subject)
    \/ \E i \in 1..MaxMsgs, ok \in BOOLEAN : InjectionSettled(i, ok)

NextLoad ==
    \E tabId \in TabIds, frameId \in FrameIds, d \in DeviceIds :
        LoadSender(tabId, frameId, d)

Next == NextRegistry \/ GetDevicesCall \/ NextRouter \/ NextMessages \/ NextLoad

Spec == Init /\ [][Next]_vars

\* the Device Registry alone
SpecRegistry == Init /\ [][NextRegistry]_vars
\* the Device Registry with a caller holding what getDevices() returned
\* one upstream channel at a time, reconnected by the timeout, with every message
NextTable ==
    \/ bridgePort = 0 /\ NumPending = 0 /\ DeviceManagerInit
    \/ \E o \in Origins : RefreshConnected(o)
    \/ \E p \in PortIds, m \in BridgeMessages : OnBridgeMessage(p, m)
    \/ \E p \in PortIds : OnBridgeDisconnect(p)
    \/ ReconnectTimeout
SpecTable == Init /\ [][NextTable]_vars

\* the channels alone: every interleaving of init(), refresh(), connects,
\* disconnects and timeouts, with no message delivered
NextReconnect ==
    \/ DeviceManagerInit
    \/ Refresh
    \/ ReconnectTimeout
    \/ \E o \in Origins : RefreshConnected(o)
    \/ \E p \in PortIds : OnBridgeDisconnect(p)
SpecReconnect == Init /\ [][NextReconnect]_vars
\* the timer fires once its delay has elapsed, and bridge.connect() resolves
FairSpecReconnect ==
    /\ SpecReconnect
    /\ WF_vars(ReconnectTimeout)
    /\ WF_vars(\E o \in Origins : RefreshConnected(o))

\* one upstream channel, and a caller that takes getDevices() once and holds it
NextSnapshot ==
    \/ bridgePort = 0 /\ NumPending = 0 /\ DeviceManagerInit
    \/ \E o \in Origins : RefreshConnected(o)
    \/ \E p \in PortIds, m \in BridgeMessages : held < MaxHeld /\ OnBridgeMessage(p, m)
    \/ \E p \in PortIds : held < MaxHeld /\ OnBridgeDisconnect(p)
    \/ ~snapshot.taken /\ GetDevicesCall
SpecSnapshot == Init /\ [][NextSnapshot]_vars
\* the Session Router alone
SpecRouter == Init /\ [][NextRouter]_vars
\* the Session Router with the messages of its instances' channels
NextInstances ==
    \/ CastManagerInit
    \/ \E c \in Conns, tab \in TabIds, frame \in FrameIds :
           CreateInstance(c, "content", tab, frame)
    \/ \E c \in Conns : CreateInstance(c, "background", Undefined, Undefined)
    \/ \E c \in Conns : InstanceConnected(c)
    \/ \E c \in Conns : InstanceInitialized(c)
    \/ \E c \in Conns : ContentPortDisconnected(c)
    \/ \E c \in Conns : InstanceBridgeDisconnected(c)
\* instances and what their senders send
NextSenderMessages ==
    \/ NextInstances
    \/ \E c \in Conns, subject \in ContentSubjects : ContentMessage(c, subject)
    \/ \E c \in Conns, outcome \in SelectionOutcomes : SelectionResolved(c, outcome)
SpecSenderMessages == Init /\ [][NextSenderMessages]_vars
\* instances and what the bridge sends them
NextBridgeMessages ==
    \/ NextInstances
    \/ \E c \in Conns, subject \in BridgeSubjects : InstanceBridgeMessage(c, subject)
SpecBridgeMessages == Init /\ [][NextBridgeMessages]_vars
\* cross-boundary instances with the messages of both their channels
NextOrder ==
    \/ CastManagerInit
    \/ \E c \in Conns, tab \in TabIds, frame \in FrameIds :
           CreateInstance(c, "content", tab, frame)
    \/ \E c \in Conns : InstanceConnected(c)
    \/ \E c \in Conns : InstanceInitialized(c)
    \/ \E c \in Conns : ContentPortDisconnected(c)
    \/ \E c \in Conns : ContentMessage(c, BridgeCreateCastSession)
    \/ \E c \in Conns : ContentMessage(c, MainSelectReceiver)
    \/ \E c \in Conns : SelectionResolved(c, "castApp")
    \/ \E c \in Conns, subject \in BridgeSubjects : InstanceBridgeMessage(c, subject)
SpecOrder == Init /\ [][NextOrder]_vars
\* the Device Registry on one upstream channel, announcing devices and their
\* loss, with the Session Router's instances
NextFanOut ==
    \/ bridgePort = 0 /\ NumPending = 0 /\ DeviceManagerInit
    \/ \E o \in Origins : RefreshConnected(o)
    \/ \E p \in PortIds, d \in DeviceIds :
           /\ \A c \in Conns : Len(posted[c]) < MaxPosted
           /\ OnBridgeMessage(p, ReceiverDeviceUpMsg(d, NoStatus))
    \/ \E p \in PortIds, d \in DeviceIds :
           /\ \A c \in Conns : Len(posted[c]) < MaxPosted
           /\ OnBridgeMessage(p, ReceiverDeviceDownMsg(d))
    \/ \E p \in PortIds :
           /\ \A c \in Conns : Len(posted[c]) < MaxPosted
           /\ OnBridgeDisconnect(p)
    \/ CastManagerInit
    \/ \E c \in Conns, tab \in TabIds, frame \in FrameIds :
           CreateInstance(c, "content", tab, frame)
    \/ \E c \in Conns : InstanceConnected(c)
    \/ \E c \in Conns : ContentPortDisconnected(c)
SpecFanOut == Init /\ [][NextFanOut]_vars
\* the Device Registry on one upstream channel, with statuses, and cross-boundary
\* instances whose senders send main:initializeCast
NextInitialize ==
    \/ bridgePort = 0 /\ NumPending = 0 /\ DeviceManagerInit
    \/ \E o \in Origins : RefreshConnected(o)
    \/ \E p \in PortIds, d \in DeviceIds :
           /\ \A c \in Conns : Len(posted[c]) < MaxPosted
           /\ OnBridgeMessage(p, ReceiverDeviceUpMsg(d, NoStatus))
    \/ \E p \in PortIds, d \in DeviceIds :
           OnBridgeMessage(p, ReceiverDeviceStatusUpdatedMsg(d,
               MkStatus(TRUE, FALSE, 1, UndefApps)))
    \/ CastManagerInit
    \/ \E c \in Conns : CreateInstance(c, "content", 0, 0)
    \/ \E c \in Conns : InstanceConnected(c)
    \/ \E c \in Conns : ContentMessage(c, MainInitializeCast)
SpecInitialize == Init /\ [][NextInitialize]_vars
\* cross-boundary instances whose senders send main:selectReceiver, with the
\* selection workflow's outcomes and the content injections of loadSender
NextSelection ==
    \/ CastManagerInit
    \/ \E c \in Conns, tab \in TabIds, frame \in FrameIds :
           CreateInstance(c, "content", tab, frame)
    \/ \E c \in Conns : InstanceConnected(c)
    \/ \E c \in Conns : ContentPortDisconnected(c)
    \/ \E c \in Conns : InstanceBridgeDisconnected(c)
    \/ \E c \in Conns : ContentMessage(c, MainSelectReceiver)
    \/ \E c \in Conns, outcome \in SelectionOutcomes : SelectionResolved(c, outcome)
    \/ \E i \in 1..MaxMsgs, ok \in BOOLEAN : InjectionSettled(i, ok)
SpecSelection == Init /\ [][NextSelection]_vars
\* the Device Registry with refresh() calls, announcing devices and their loss
\* to cross-boundary instances whose senders send main:initializeCast
NextReplay ==
    \/ bridgePort = 0 /\ NumPending = 0 /\ DeviceManagerInit
    \/ NumPending = 0 /\ Refresh
    \/ \E o \in Origins : RefreshConnected(o)
    \/ \E p \in PortIds, d \in DeviceIds :
           /\ \A c \in Conns : Len(posted[c]) < MaxPosted
           /\ OnBridgeMessage(p, ReceiverDeviceUpMsg(d, NoStatus))
    \/ \E p \in PortIds, d \in DeviceIds :
           /\ \A c \in Conns : Len(posted[c]) < MaxPosted
           /\ OnBridgeMessage(p, ReceiverDeviceDownMsg(d))
    \/ \E p \in PortIds :
           /\ \A c \in Conns : Len(posted[c]) < MaxPosted
           /\ OnBridgeDisconnect(p)
    \/ CastManagerInit
    \/ \E c \in Conns : CreateInstance(c, "content", 0, 0)
    \/ \E c \in Conns : InstanceConnected(c)
    \/ \E c \in Conns : ContentMessage(c, MainInitializeCast)
SpecReplay == Init /\ [][NextReplay]_vars
\* the Session Router with loadSender calls
SpecLoad == Init /\ [][NextRouter \/ NextLoad]_vars
\* bridge.connect() and bridge.getInfo() settle; no channel is bound to disconnect
FairSpecRouter ==
    /\ SpecRouter
    /\ \A c \in Conns : WF_vars(InstanceConnected(c))
    /\ \A c \in Conns : WF_vars(InstanceInitialized(c) \/ InstanceInfoFailed(c))

(***************************************************************************)
(* Claims.                                                                 *)
(***************************************************************************)
SameSender(a, b) ==
    /\ conns[a].kind = "content"
    /\ conns[b].kind = "content"
    /\ conns[a].tabId = conns[b].tabId
    /\ conns[a].frameId = conns[b].frameId

\* C1: in every reachable state activeInstances holds at most one cross-boundary
\* instance for any (contentTabId, contentFrameId) pair.
C1_AtMostOneInstancePerSender ==
    \A a, b \in Instances : SameSender(a, b) => a = b

\* C2: when a refresh() completes and no other refresh() is still awaiting
\* bridge.connect(), exactly one channel the registry opened is live (connected,
\* listeners attached), and it is the registry's bridgePort; every other channel
\* it opened has been disconnected.
C2_OneLiveChannelAfterRefresh ==
    (last.op = "connected" /\ NumPending = 0) =>
        /\ Cardinality(LivePorts) = 1
        /\ LivePorts = {bridgePort}
        /\ \A p \in PortIds \ LivePorts : ports[p].state # "connected"

InitPorts == {p \in PortIds : ports[p].by = "init"}
\* C3: init() calls alone establish the upstream channel once: the connects
\* started by init() calls (resolved or still pending) number at most one, and
\* at most one bridge:startDiscovery is posted on the channels they open.
C3_InitConnectsOnce ==
    /\ Cardinality(InitPorts) + pending["init"] <= 1
    /\ \A p, q \in InitPorts : p = q /\ Len(ports[p].sent) = 1

TableEntries ==
    {[key |-> receiverDevices[i].key, device |-> heap[receiverDevices[i].ref]] :
        i \in DOMAIN receiverDevices}
\* C4: after any sequence of device-up, device-down and status-updated messages
\* (since the table was last cleared) getDevices() returns exactly the devices,
\* with statuses, that replaying the reference rules gives.
C4_GetDevicesMatchesReplay ==
    LET got == Deref(heap, GetDevices)
    IN  /\ Len(got) = Cardinality(refTable)
        /\ {got[i] : i \in DOMAIN got} = {e.device : e \in refTable}
        /\ TableEntries = refTable
\* C4 witness: a status update without applications has been merged into a
\* device that had applications, which it keeps
C4_Witness ==
    /\ last.op = "main:receiverDeviceStatusUpdated"
    /\ last.known
    /\ \E e \in TableEntries :
          /\ e.key = last.deviceId
          /\ e.device.status.kind = "status"
          /\ e.device.status.isActiveInput
          /\ e.device.status.applications = Apps(<<"app0">>)

\* C5: the disconnect handler, run while the table holds the devices D, emits
\* only receiverDeviceDown events, exactly one for each device of D and none
\* for any other id, and leaves the table empty.
C5_DisconnectEmitsDownForEach ==
    [][last'.op = "disconnect" =>
          /\ receiverDevices' = <<>>
          /\ Len(emitted') = Len(receiverDevices)
          /\ \A i \in DOMAIN emitted' : emitted'[i].type = "receiverDeviceDown"
          /\ \A d \in DeviceIds :
                Cardinality({i \in DOMAIN emitted' : emitted'[i].deviceId = d})
                    = IF MapHas(receiverDevices, d) THEN 1 ELSE 0]_vars
\* C5 witness: the handler has run on a table of two devices
C5_Witness ==
    /\ last.op = "disconnect"
    /\ Len(emitted) = 2
    /\ receiverDevices = <<>>

LostPorts == {p \in PortIds : ports[p].state = "lost"}
TimerPorts == {p \in PortIds : ports[p].by = "timer"}
BridgeLive == bridgePort # 0 /\ IsLive(bridgePort)
\* C6: every upstream disconnect sets one timeout, every timeout that fires
\* opens one fresh channel, and on every channel opened exactly one
\* bridge:startDiscovery with shouldWatchStatus = true is posted; and after a
\* disconnect the registry eventually has a live upstream channel again.
C6_ReconnectAfterDisconnect ==
    /\ [](Cardinality(LostPorts) = timers + pending["timer"] + Cardinality(TimerPorts))
    /\ [](\A p \in PortIds :
             ports[p].state # "unopened" =>
                 ports[p].sent = <<[subject |-> "bridge:startDiscovery",
                                    shouldWatchStatus |-> TRUE]>>)
    /\ ((last.op = "disconnect") ~> BridgeLive)
\* C6 witness: the channel opened by a reconnect timeout is the live bridgePort
C6_Witness ==
    /\ bridgePort \in TimerPorts
    /\ IsLive(bridgePort)
    /\ LostPorts # {}

\* C7: if the table is non-empty, the registry's bridgePort is live.
C7_NoDeviceWithoutLiveChannel ==
    receiverDevices # <<>> => BridgeLive

\* C8: a main:receiverDeviceDown whose deviceId is not in the table emits exactly
\* one receiverDeviceDown event carrying that id and leaves the table unchanged;
\* and after any device-down, delivering it again would leave the table as it is.
C8_DownForUnknownDevice ==
    [][last'.op = "main:receiverDeviceDown" =>
          /\ ~last'.known =>
                /\ ~MapHas(receiverDevices, last'.deviceId)
                /\ emitted' = <<[type |-> "receiverDeviceDown",
                                 deviceId |-> last'.deviceId]>>
                /\ receiverDevices' = receiverDevices
                /\ heap' = heap
          /\ TableAfterDown(receiverDevices', last'.deviceId) = receiverDevices']_vars
\* C8 witness: a device-down for an id not in a non-empty table has been handled
C8_Witness ==
    /\ last.op = "main:receiverDeviceDown"
    /\ ~last.known
    /\ receiverDevices # <<>>
    /\ Len(emitted) = 1

\* C9: a device leaves the table only in a device-down turn for its id or in a
\* disconnect turn, and the turn emits a receiverDeviceDown carrying its id.
C9_RemovalOnlyWithDownEvent ==
    [][\A d \in MapKeys(receiverDevices) \ MapKeys(receiverDevices') :
          /\ \/ last'.op = "disconnect"
             \/ last'.op = "main:receiverDeviceDown" /\ last'.deviceId = d
          /\ \E i \in DOMAIN emitted' : emitted'[i] = ReceiverDeviceDownEvent(d)]_vars

\* C10: what getDevices() returned stays as it was returned: later events change
\* neither the sequence nor the status of the devices in it.
C10_SnapshotIsPointInTime ==
    snapshot.taken => Deref(heap, snapshot.refs) = snapshotCopy

ChannelGone(c) ==
    /\ conns[c].kind = "content"
    /\ conns[c].pc # "failed"
    /\ conns[c].contentPort = "lost" \/ conns[c].bridgePort = "lost"
TornDown(c) ==
    /\ c \notin Instances
    /\ conns[c].contentPort # "connected"
    /\ conns[c].bridgePort # "connected"
    /\ ~conns[c].contentOnMessage
    /\ ~conns[c].bridgeOnMessage
\* C11: once the other end of either channel of a cross-boundary instance has
\* gone (at any time after the sender channel connected), the instance ends up,
\* for good, out of activeInstances with both channels disconnected and both
\* forwarding listeners removed.
C11_DisconnectLeadsToTeardown ==
    \A c \in Conns : ChannelGone(c) ~> [](TornDown(c))

TeardownHasRun(c) == conns[c].bridgeOnDisconnect /\ ~conns[c].bridgeOnMessage
\* C12: every run of a cross-boundary instance's teardown callback ends without
\* an error, leaves the instance out of activeInstances and changes no other
\* instance and no other member of the set; a run after the first (the other
\* channel's disconnect event) leaves activeInstances exactly as it was.
C12_TeardownIdempotent ==
    [][\A c \in Conns :
          (routerLast'.op = "teardown" /\ routerLast'.conn = c
              /\ conns[c].kind = "content") =>
              /\ ~routerLast'.threw
              /\ c \notin {activeInstances'[i] : i \in DOMAIN activeInstances'}
              /\ activeInstances' = SelectSeq(activeInstances, LAMBDA x : x # c)
              /\ \A b \in Conns \ {c} : conns'[b] = conns[b]
              /\ TeardownHasRun(c) =>
                    /\ activeInstances' = activeInstances
                    /\ ~conns'[c].contentOnMessage
                    /\ ~conns'[c].bridgeOnMessage]_vars
\* C12 witness: both channels' disconnect events have run the teardown of an
\* instance while another instance is live
C12_Witness ==
    /\ routerLast.op = "teardown"
    /\ conns[routerLast.conn].kind = "content"
    /\ conns[routerLast.conn].contentPort = "lost"
    /\ conns[routerLast.conn].bridgePort = "lost"
    /\ Instances # {}

\* C13: the turn in which createInstance is called with a cross-boundary sender
\* channel disconnects the bridge channel of every instance in activeInstances
\* that holds the sender's (tab id, frame id), and does not yet add the new
\* instance; an instance is added only by the later turn that follows the
\* await, and a disconnected bridge channel never becomes connected again.
C13_OccupantDisconnectedBeforeAdd ==
    /\ [][\A c \in Conns :
             (conns[c].pc = "none" /\ conns'[c].pc = "connecting"
                 /\ conns'[c].kind = "content") =>
                 /\ c \notin {activeInstances'[i] : i \in DOMAIN activeInstances'}
                 /\ \A b \in Instances :
                       (conns[b].tabId = conns'[c].tabId
                           /\ conns[b].frameId = conns'[c].frameId) =>
                           conns'[b].bridgePort # "connected"]_vars
    /\ [][\A c \in Conns :
             (c \in {activeInstances'[i] : i \in DOMAIN activeInstances'}
                 /\ c \notin Instances) => conns[c].pc = "connecting"]_vars
    /\ [][\A b \in Conns :
             conns[b].bridgePort \notin {"none", "connected"} =>
                 conns'[b].bridgePort # "connected"]_vars
\* C13 witness: a new instance has been added for a sender whose prior instance
\* is still in the set, its bridge channel disconnected by the call
C13_Witness ==
    \E a, b \in Instances :
        /\ a < b
        /\ SameSender(a, b)
        /\ conns[a].bridgePort = "disconnected"
        /\ conns[b].bridgePort = "connected"

InitializedCount(c) ==
    Cardinality({i \in DOMAIN posted[c] : posted[c][i].subject = "cast:initialized"})
\* C14: every createInstance call that has added its instance to activeInstances
\* and has finished has sent exactly one cast:initialized, carrying the bridge
\* info, to the instance's sender channel; no sender channel is ever sent more
\* than one.
C14_CreationSendsInitialized ==
    \A c \in Conns :
        /\ InitializedCount(c) <= 1
        /\ conns[c].pc \in {"done", "rejected"} =>
              /\ InitializedCount(c) = 1
              /\ \E i \in DOMAIN posted[c] : posted[c][i] = InitializedMsg

\* C15: createInstance on a cross-boundary channel without a tab id or without
\* a frame id throws, and that is all it does: no bridge channel is opened for
\* it, it is never in activeInstances, nothing is sent to the sender, and the
\* failing call changes no other instance, no channel and no message queue.
C15_InvalidContextFailsCleanly ==
    /\ [](\A c \in Conns :
             (conns[c].kind = "content"
                 /\ (conns[c].tabId = Undefined \/ conns[c].frameId = Undefined)) =>
                 /\ conns[c].pc = "failed"
                 /\ conns[c].bridgePort = "none"
                 /\ c \notin Instances
                 /\ posted[c] = <<>>)
    /\ [][\A c \in Conns :
             (conns[c].pc = "none" /\ conns'[c].pc = "failed") =>
                 /\ routerLast'.threw
                 /\ activeInstances' = activeInstances
                 /\ posted' = posted
                 /\ bridgeOut' = bridgeOut
                 /\ \A b \in Conns \ {c} : conns'[b] = conns[b]]_vars
\* C15 witness: a sender channel with a tab id but no frame id was refused while
\* an instance at the same tab is live with its bridge channel connected
C15_Witness ==
    \E c \in Conns, b \in Instances :
        /\ conns[c].pc = "failed"
        /\ conns[c].tabId # Undefined
        /\ conns[c].frameId = Undefined
        /\ conns[b].tabId = conns[c].tabId
        /\ conns[b].bridgePort = "connected"

\* C16: a loadSender call for a Cast selection of type App, at tab t and frame f,
\* posts one cast:launchApp carrying the chosen device to the sender channel of
\* a live instance whose (contentTabId, contentFrameId) is (t, f) and posts
\* nothing else; when no live instance has that identity it throws and posts
\* nothing.
C16_LaunchAppToInstanceAtTabFrame ==
    [][routerLast'.op = "loadSender" =>
          LET req == routerLast'.msg
              at == {c \in Instances :
                        conns[c].tabId = req.tabId /\ conns[c].frameId = req.frameId}
          IN  IF at = {}
              THEN routerLast'.threw /\ posted' = posted
              ELSE \E c \in at :
                      posted' = [posted EXCEPT ![c] =
                                    Append(@, [subject |-> "cast:launchApp",
                                               receiverDevice |-> req.receiverDevice])]]_vars

\* C17: once castManager.init() has run, every turn of the Device Registry sends
\* to the sender channel of each instance in activeInstances, initialized or
\* not, one cast:receiverDeviceUp (with the device info) per receiverDeviceUp
\* event and one cast:receiverDeviceDown (with the device id) per
\* receiverDeviceDown event it emitted, in order, and sends nothing to any
\* channel whose instance is not in the set. (Nothing is required for an
\* instance whose sender channel can no longer be posted to.)
C17_EventsReachEveryLiveInstance ==
    [][(routerReady /\ UNCHANGED routerVars) =>
          LET evs == SelectSeq(emitted', LAMBDA e :
                         e.type \in {"receiverDeviceUp", "receiverDeviceDown"})
              msgs == [i \in DOMAIN evs |->
                          IF evs[i].type = "receiverDeviceUp"
                          THEN [subject |-> "cast:receiverDeviceUp",
                                receiverDevice |-> evs[i].deviceInfo]
                          ELSE [subject |-> "cast:receiverDeviceDown",
                                receiverDeviceId |-> evs[i].deviceId]]
          IN  \A c \in Conns :
                 /\ (c \in Instances /\ CanPostContent(conns[c])) =>
                        posted'[c] = posted[c] \o msgs
                 /\ c \notin Instances => posted'[c] = posted[c]]_vars

\* C18: a message handled on an instance's sender channel is posted to that
\* instance's bridge channel exactly when the part of its subject before the
\* first ":" is "bridge"; it is then posted once, as received, and to no other
\* bridge channel, and the turn changes no appId, starts no selection and posts
\* nothing to any sender.
C18_BridgeNamespaceForwarded ==
    [][\A c \in Conns :
          contentRecv'[c] = contentRecv[c] + 1 =>
              LET m == routerLast'.msg
                  toBridge ==
                      \E k \in DOMAIN m.subject :
                          /\ m.subject[k] = ":"
                          /\ \A j \in 1..(k - 1) : m.subject[j] # ":"
                          /\ SubSeq(m.subject, 1, k - 1) = <<"bridge">>
              IN  /\ bridgeOut' = IF toBridge
                                  THEN [bridgeOut EXCEPT ![c] = Append(@, m)]
                                  ELSE bridgeOut
                  /\ toBridge =>
                        /\ conns' = conns
                        /\ selecting' = selecting
                        /\ posted' = posted]_vars

\* C19: every message received on the bridge channel of an instance that is in
\* activeInstances is posted once, as received, to that instance's sender
\* channel, whatever its subject, and to no other sender channel and no bridge
\* channel.
C19_BridgeMessagesReachOwnSender ==
    [][\A c \in Conns :
          (bridgeRecv'[c] = bridgeRecv[c] + 1 /\ c \in Instances) =>
              /\ posted' = [posted EXCEPT ![c] = Append(@, routerLast'.msg)]
              /\ bridgeOut' = bridgeOut]_vars

ForwardedToSender(c) == SelectSeq(posted[c], LAMBDA m : m.subject \in BridgeSubjects)
InOrder(q) == \A i, j \in DOMAIN q : i < j => q[i].data < q[j].data
\* C20: for every instance, the messages on its bridge channel are
\* bridge-namespace messages of its sender in the order the sender channel
\* received them, and the bridge's messages on its sender channel are in the
\* order the bridge channel received them, whatever local replies were posted
\* in between.
C20_ForwardingKeepsOrder ==
    \A c \in Conns :
        /\ InOrder(bridgeOut[c])
        /\ \A i \in DOMAIN bridgeOut[c] :
              /\ bridgeOut[c][i].subject[1] = "bridge"
              /\ bridgeOut[c][i].data <= contentRecv[c]
        /\ InOrder(ForwardedToSender(c))
        /\ \A i \in DOMAIN ForwardedToSender(c) :
              ForwardedToSender(c)[i].data <= bridgeRecv[c]
\* C20 witness: a main:selectReceiver was suspended when the bridge's first
\* message was forwarded and its reply was posted before the second, while a
\* bridge-namespace message of the sender was forwarded to the bridge
C20_Witness ==
    \E c \in Conns :
        /\ Len(bridgeOut[c]) >= 1
        /\ \E i, j, k \in DOMAIN posted[c] :
              /\ i < j /\ j < k
              /\ posted[c][i].subject \in BridgeSubjects
              /\ posted[c][j].subject = "cast:selectReceiver/selected"
              /\ posted[c][k].subject \in BridgeSubjects

\* C21: handling main:initializeCast on an instance sets its appId to the
\* message's and appends to its sender channel one cast:receiverDeviceUp per
\* entry of the registry table, in the table's order, each carrying the
\* device's info as it is at that moment; nothing is sent to any other sender
\* channel and no other instance changes.
C21_InitializeCastSendsDevices ==
    [][\A c \in Conns :
          (contentRecv'[c] = contentRecv[c] + 1
              /\ routerLast'.msg.subject = <<"main", ":", "initializeCast">>) =>
              /\ conns'[c].appId = routerLast'.msg.data
              /\ \A b \in Conns \ {c} : conns'[b] = conns[b]
              /\ posted' = [posted EXCEPT ![c] =
                    @ \o [i \in DOMAIN receiverDevices |->
                             [subject |-> "cast:receiverDeviceUp",
                              receiverDevice |-> heap[receiverDevices[i].ref]]]]]_vars
\* C21 witness: main:initializeCast was handled with two devices in the table,
\* one of them with a status merged from an update, while another instance is
\* live
C21_Witness ==
    /\ routerLast.op = "contentMessage"
    /\ routerLast.msg.subject = MainInitializeCast
    /\ Len(receiverDevices) = 2
    /\ Cardinality(Instances) = 2
    /\ LET q == posted[routerLast.conn]
       IN  /\ Len(q) >= 2
           /\ q[Len(q)].subject = "cast:receiverDeviceUp"
           /\ q[Len(q) - 1].subject = "cast:receiverDeviceUp"
           /\ q[Len(q)].receiverDevice.id # q[Len(q) - 1].receiverDevice.id
           /\ \E i \in {Len(q) - 1, Len(q)} :
                 /\ q[i].receiverDevice.status.kind = "status"
                 /\ q[i].receiverDevice.status.isActiveInput

\* what the sender is to be told for a workflow outcome
Notification(o) ==
    IF o = "castApp"
    THEN [subject |-> "cast:selectReceiver/selected", data |-> Selection(o)]
    ELSE IF o = "stop"
    THEN [subject |-> "cast:selectReceiver/stopped", data |-> Selection(o)]
    ELSE [subject |-> "cast:selectReceiver/cancelled"]
\* C22: when the selection workflow of a main:selectReceiver settles on an
\* instance whose sender channel is still connected, exactly one notification
\* is posted to that sender and none to any other: selected carrying the
\* selection for Cast of type App, stopped carrying the selection for Stop,
\* cancelled for no selection, for Cast of another media type and for a failed
\* workflow; when the sender channel is no longer connected nothing is posted.
C22_SelectionNotifiesOnce ==
    [][\A c \in Conns :
          selecting'[c] = selecting[c] - 1 =>
              IF conns[c].contentPort = "connected"
              THEN posted' = [posted EXCEPT ![c] =
                                 Append(@, Notification(routerLast'.msg.outcome))]
              ELSE posted' = posted]_vars
\* C22 as stated: every settled workflow posts its notification
C22_AlwaysNotifies ==
    [][\A c \in Conns :
          selecting'[c] = selecting[c] - 1 =>
              posted' = [posted EXCEPT ![c] =
                            Append(@, Notification(routerLast'.msg.outcome))]]_vars
\* C22 witness: two workflows of one instance have settled, one with Cast of
\* type App and one with Cast of type Tab, and the sender was told selected
\* with the selection, then cancelled
C22_Witness ==
    /\ routerLast.op = "selection"
    /\ ~routerLast.threw
    /\ routerLast.msg.outcome = "castTab"
    /\ LET q == posted[routerLast.conn]
       IN  /\ Len(q) >= 2
           /\ q[Len(q) - 1].subject = "cast:selectReceiver/selected"
           /\ q[Len(q) - 1].data.mediaType = "app"
           /\ q[Len(q)].subject = "cast:selectReceiver/cancelled"

\* the injections of the i-th loadSender call, in the order performed
InjectionsOf(i) == SelectSeq(injected, LAMBDA x : x.load = i)
IsPrefix(p, q) == Len(p) <= Len(q) /\ \A k \in DOMAIN p : p[k] = q[k]
\* a workflow settles on c with a Cast selection of type Tab or Screen
MirroringSelected(c) ==
    /\ selecting'[c] = selecting[c] - 1
    /\ routerLast'.msg.outcome \in {"castTab", "castScreen"}
MirroringStarted(c) ==
    /\ posted' = [posted EXCEPT ![c] =
                     Append(@, [subject |-> "cast:selectReceiver/cancelled"])]
    /\ injected' = injected
    /\ loading' = Append(loading,
                         [conn |-> c, tabId |-> conns[c].tabId,
                          frameId |-> conns[c].frameId,
                          mediaType |-> IF routerLast'.msg.outcome = "castTab"
                                        THEN "tab" ELSE "screen",
                          step |-> 1])
\* C23: when the workflow of a main:selectReceiver returns Cast with media type
\* Tab or Screen while the requesting sender's channel is still connected, that
\* sender is sent cast:selectReceiver/cancelled and nothing else, and sender
\* activation starts for the requesting (tab, frame); it injects the
\* media-type/device snippet first and the mirroring bundle only after the
\* snippet injection succeeded, both into that (tab, frame), and nothing more;
\* when the sender channel is no longer connected nothing is sent and nothing
\* is injected.
C23_MirroringAfterCancelled ==
    /\ [](\A i \in DOMAIN loading :
             LET l == loading[i]
             IN  /\ l.tabId = conns[l.conn].tabId
                 /\ l.frameId = conns[l.conn].frameId
                 /\ IsPrefix(InjectionsOf(i),
                             <<[load |-> i, tabId |-> l.tabId, frameId |-> l.frameId,
                                what |-> "code"],
                               [load |-> i, tabId |-> l.tabId, frameId |-> l.frameId,
                                what |-> "file"]>>)
                 /\ l.step = 1 => Len(InjectionsOf(i)) = 0
                 /\ l.step = 2 => Len(InjectionsOf(i)) = 1
                 /\ l.step = 0 => Len(InjectionsOf(i)) = 2
                 /\ \E k \in DOMAIN posted[l.conn] :
                       posted[l.conn][k].subject = "cast:selectReceiver/cancelled")
    /\ [](\A j \in DOMAIN injected : injected[j].load \in DOMAIN loading)
    /\ [][\A c \in Conns :
             MirroringSelected(c) =>
                 IF conns[c].contentPort = "connected"
                 THEN MirroringStarted(c)
                 ELSE posted' = posted /\ injected' = injected /\ loading' = loading]_vars
\* C23 as stated: every such selection sends cancelled and starts an activation
\* that performs both injections
C23_AlwaysTwoInjections ==
    /\ [](\A i \in DOMAIN loading : loading[i].step # -1)
    /\ [][\A c \in Conns : MirroringSelected(c) => MirroringStarted(c)]_vars
\* C23 witness: an activation for a sender in tab 1, frame 1 has performed both
\* injections, snippet then bundle, after cancelled was sent, and another
\* activation ended at a rejected injection
C23_Witness ==
    \E i, j \in DOMAIN loading :
        /\ loading[i].step = 0
        /\ loading[i].tabId = 1 /\ loading[i].frameId = 1
        /\ Len(InjectionsOf(i)) = 2
        /\ InjectionsOf(i)[1].what = "code"
        /\ InjectionsOf(i)[2].what = "file"
        /\ loading[j].step = -1
        /\ \A k \in DOMAIN posted[loading[i].conn] :
              posted[loading[i].conn][k].subject = "cast:selectReceiver/cancelled"

\* C24: when the selection workflow of an instance settles after the
\* instance's teardown has run (either channel disconnected while it was
\* pending), whatever its outcome, no message is posted to any sender channel,
\* no loadSender call is made and no content is injected.
C24_ResultUnusedAfterTeardown ==
    [][\A c \in Conns :
          (selecting'[c] = selecting[c] - 1 /\ TeardownHasRun(c)) =>
              /\ posted' = posted
              /\ loading' = loading
              /\ injected' = injected
              /\ bridgeOut' = bridgeOut]_vars
\* C24 witness: the bridge channel of an instance disconnected while its
\* workflow was pending, the teardown disconnected the sender channel, and the
\* workflow then settled with a Cast selection of type Tab
C24_Witness ==
    /\ routerLast.op = "selection"
    /\ routerLast.msg.outcome = "castTab"
    /\ TeardownHasRun(routerLast.conn)
    /\ conns[routerLast.conn].bridgePort = "lost"
    /\ conns[routerLast.conn].contentPort = "disconnected"
    /\ routerLast.conn \notin Instances
    /\ loading = <<>>

\* the device ids a sender holds after the messages q of its channel
RECURSIVE Replay(_)
Replay(q) ==
    IF q = <<>> THEN {}
    ELSE LET s == Replay(SubSeq(q, 1, Len(q) - 1))
             m == q[Len(q)]
         IN  IF m.subject = "cast:receiverDeviceUp" THEN s \cup {m.receiverDevice.id}
             ELSE IF m.subject = "cast:receiverDeviceDown" THEN s \ {m.receiverDeviceId}
             ELSE s
\* C25: whenever no refresh() is suspended, for every instance in
\* activeInstances that has handled main:initializeCast and whose sender
\* channel is connected, the device ids obtained by replaying the
\* cast:receiverDeviceUp and cast:receiverDeviceDown messages of its sender
\* channel are the ids in the Device Registry table.
C25_SenderViewMatchesTable ==
    NumPending = 0 =>
        \A c \in Instances :
            (conns[c].appId # 0 /\ conns[c].contentPort = "connected") =>
                Replay(posted[c]) = MapKeys(receiverDevices)

\* C26: no turn of the router calls postMessage on a channel that is no longer
\* connected: cast:initialized, a selection notification, a forwarded bridge
\* message and cast:launchApp are posted only to a connected sender channel,
\* and a bridge-namespace message only to a connected bridge channel (such a
\* call throws, which the turn records).
C26_NeverPostsToDisconnected ==
    routerLast.threw =>
        /\ routerLast.op \notin {"initialized", "selection", "bridgeMessage"}
        /\ routerLast.op = "contentMessage" => routerLast.msg.subject[1] # "bridge"
        /\ routerLast.op = "loadSender" => routerLast.conn = 0

====
